---- MODULE Spec2Model ----
(***************************************************************************)
(* Model of the secure-messenger-desktop synchronisation core:             *)
(*   - WebSocketClient (src/src/hooks/useWebSocket.ts): one client         *)
(*     instance, the sockets it has created, its heartbeat and reconnect   *)
(*     timers;                                                             *)
(*   - the redux store (src/src/store/index.ts): connection, chats and     *)
(*     messages slices;                                                    *)
(*   - the WebSocket server and message emitter (src/unnamed/part_001);    *)
(*   - the SQLite store (database.ts, second half of                       *)
(*     src/src/server/__tests__/database.test.ts) behind its IPC handlers  *)
(*     (src/src/main.ts);                                                  *)
(*   - the page reads of ChatList and MessageView (src/unnamed/part_002,   *)
(*     part_003).                                                          *)
(* Timers carry no clock: a pending timer may fire at any later step.      *)
(* The WebSocket objects follow the platform's life cycle (CONNECTING,     *)
(* OPEN, CLOSING, CLOSED); a failed connection fires the error event and   *)
(* then the close event in the same task.  The constructor call with the   *)
(* constant URL ws://localhost:8765 does not throw, so the catch branch of *)
(* attemptConnection is not taken.                                         *)
(* A message row carries id, chatId, ts and body, and the rowid SQLite      *)
(* gives it; sender, title and createdAt are stored and passed on but     *)
(* never inspected, and are left out.  A text is a sequence of characters. *)
(* The renderer starts as React mounts it (src/src/App.tsx, part_002): the *)
(* effect of ChatList calls loadChats(), the effect of App calls           *)
(* seedData() and wsClient.connect(store); the cleanup of App's effect     *)
(* calls disconnect().  A call of window.electronAPI is an IPC call: its   *)
(* handler runs in the main process at a later step and the code after     *)
(* the await runs when the reply has come back, other steps in between.    *)
(* Math.random() and uuidv4() are given as functions of how many values    *)
(* were drawn before, Date.now() as a clock that every reader advances.    *)
(***************************************************************************)
EXTENDS Integers, Sequences, FiniteSets, TLC

VARIABLES
    store,              \* WebSocketClient.store is set (connect() was called)
    ws,                 \* WebSocketClient.ws: 0 for null, else a socket
    reconnectAttempt,   \* WebSocketClient.reconnectAttempt (private counter)
    heartbeatTimeout,   \* "null" | "pending" | "sent" (fired, ping sent) | "skipped" (fired, no ping)
    reconnectTimeout,   \* "null" | "pending" | "done" (handle of the last timer set)
    orphanTimers,       \* pending reconnect timers whose handle was overwritten
    sockets,            \* every WebSocket the client created and the server's end of it
    task,               \* socket whose error event fired and whose close event follows in the same task
    connection,         \* redux connection slice
    chats,              \* redux chats slice: items, selectedId, isLoading, offset, hasMore
    messages,           \* redux messages slice: items, isLoading, offset, hasMore
    db,                 \* the SQLite database: tables chats and messages
    clicks,             \* clicks the user may still make (bound of the model)
    uuids,              \* number of uuidv4() values drawn so far
    now,                \* Date.now() of the main process
    emitted,            \* events the emitter has built, in order
    quota,              \* messages that may still be sent or stored (bound of the model)
    lastDelay,          \* delay of the last setTimeout made by scheduleReconnect (0: none yet)
    applied,            \* per event: how many times onmessage applied it to the view
    disconnected,       \* disconnect() was called and connect() not since
    credit,             \* sockets the client may still construct (bound of the model)
    entries,            \* onclose runs (entries into Reconnecting) since the last onopen
    attempts,           \* reconnect timer callbacks run since the last onopen
    calls,              \* the IPC calls of the renderer whose promise is pending, oldest first
    faults,             \* failures the database may still produce (bound of the model)
    reply               \* the last call of the database interface: its arguments and result

vars == <<store, ws, reconnectAttempt, heartbeatTimeout, reconnectTimeout,
          orphanTimers, sockets, task, connection, chats, messages, db,
          uuids, now, emitted, lastDelay, applied, disconnected,
          quota, credit, entries, attempts, faults, reply,
          calls, clicks>>

\* ---------------------------------------------------------------- bounds
MaxSockets == 2
MaxMsgs == 2
MaxOrphans == 1
SyncSockets == 2
SyncMsgs == 1
BrokerFaults == 1
StoreFaults == 1
ConnSockets == 12
MaxInserts == 2
MaxSeeds == 1
MaxViewItems == 200
FrameSockets == 1
FrameCount == 2
MaxUnanswered == 3
ServerSockets == 3
MaxCalls == 2
SyncClicks == 2
PageClicks == 5
FrameClicks == 1
BrokerSockets == 3
BrokerMsgs == 2
\* ms between the newest messages of two seeded chats next in age
SeedAgeStep == 150

\* ------------------------------------------------------ program constants
maxReconnectAttempts == 10
BaseDelay == 1000
MaxDelay == 30000
PageSize == 50
SeedChatCount == 200
SeedMessagesMin == 100
SeedMessagesSpread == 50
SevenDays == 604800000

Socks == 1..MaxSockets

Min(a, b) == IF a < b THEN a ELSE b

RECURSIVE Pow2(_)
Pow2(n) == IF n <= 0 THEN 1 ELSE 2 * Pow2(n - 1)

\* a backoff without the cap of 30000
Backoff_Uncapped(attempt) == BaseDelay * Pow2(attempt - 1)

\* Math.min(1000 * Math.pow(2, attempt - 1), 30000); the program calls it
\* with attempt >= 1, below that the power is a fraction (integer part kept)
Backoff(attempt) ==
    IF attempt >= 1
    THEN Min(BaseDelay * Pow2(attempt - 1), MaxDelay)
    ELSE BaseDelay \div Pow2(1 - attempt)

\* ------------------------------------------------- redux: connection slice
connectionInitial == [state |-> "offline", reconnectAttempt |-> 0, backoffDelay |-> 1000]

\* a setConnectionState that only stores the state
setConnectionState_StateOnly(c, payload) == [c EXCEPT !.state = payload]

setConnectionState(c, payload) ==
    IF payload = "connected"
    THEN [state |-> payload, reconnectAttempt |-> 0, backoffDelay |-> 1000]
    ELSE [c EXCEPT !.state = payload]

incrementReconnectAttempt(c) ==
    [c EXCEPT !.reconnectAttempt = c.reconnectAttempt + 1,
              !.backoffDelay = Backoff(c.reconnectAttempt + 1)]

\* ---------------------------------------------------- redux: chats slice
\* a field a frame does not have (undefined), as a number and as a text
Undefined == -1
UndefinedText == <<"undefined">>

\* (a, b) => b.lastMessageAt - a.lastMessageAt as Array.prototype.sort reads
\* it: the difference is NaN when one of the two has no lastMessageAt, and
\* sort takes NaN as 0
Compare(a, b) ==
    IF a.lastMessageAt = Undefined \/ b.lastMessageAt = Undefined
    THEN 0
    ELSE b.lastMessageAt - a.lastMessageAt

\* the run the sort finds at the start of the array: it descends when the
\* second item compares below the first, and goes on while the next item
\* compares the same way with the one before it; a run that descends is
\* reversed
CountAndMakeRun(work) ==
    LET n == Len(work)
        isDescending == Compare(work[2], work[1]) < 0
        Continues(i) == IF isDescending THEN Compare(work[i], work[i - 1]) < 0
                                        ELSE Compare(work[i], work[i - 1]) >= 0
        runLength == CHOOSE k \in 2..n :
                        /\ \A i \in 3..k : Continues(i)
                        /\ k = n \/ ~Continues(k + 1)
    IN [work |-> [i \in 1..n |-> IF isDescending /\ i <= runLength
                                 THEN work[runLength + 1 - i] ELSE work[i]],
        runLength |-> runLength]

\* where the item pivot goes among the sorted items work[left .. right - 1]:
\* the binary search of the insertion sort
RECURSIVE InsertionPoint(_, _, _, _)
InsertionPoint(work, pivot, left, right) ==
    IF left >= right
    THEN left
    ELSE LET mid == left + ((right - left) \div 2)
         IN IF Compare(pivot, work[mid]) < 0
            THEN InsertionPoint(work, pivot, left, mid)
            ELSE InsertionPoint(work, pivot, mid + 1, right)

\* the items from start on are inserted, one after the other, into the
\* sorted items before them
RECURSIVE BinaryInsertionSort(_, _)
BinaryInsertionSort(work, start) ==
    IF start > Len(work)
    THEN work
    ELSE LET pivot == work[start]
             left == InsertionPoint(work, pivot, 1, start)
         IN BinaryInsertionSort(
               [i \in 1..Len(work) |->
                   IF i < left \/ i > start THEN work[i]
                   ELSE IF i = left THEN pivot
                   ELSE work[i - 1]],
               start + 1)

\* state.items.sort((a, b) => b.lastMessageAt - a.lastMessageAt).  When every
\* item has a lastMessageAt the comparator is consistent and the result is
\* the stable sort, newest first: a goes before b when its lastMessageAt is
\* larger, or equal and a stood before b.  When an item has none the result
\* is what the engine's algorithm makes of a comparator that returns 0 for
\* that item: for an array of fewer than 64 items (the list never holds more
\* than one page) a single run, found by CountAndMakeRun and completed by
\* BinaryInsertionSort.
SortByLastMessage(items) ==
    IF \A i \in 1..Len(items) : items[i].lastMessageAt # Undefined
    THEN LET placed == [i \in 1..Len(items) |->
                          [item |-> items[i], place |-> i,
                           lastMessageAt |-> items[i].lastMessageAt]]
             sorted == SortSeq(placed,
                          LAMBDA a, b :
                             \/ a.lastMessageAt > b.lastMessageAt
                             \/ a.lastMessageAt = b.lastMessageAt /\ a.place < b.place)
         IN [i \in 1..Len(items) |-> sorted[i].item]
    ELSE IF Len(items) < 2
    THEN items
    ELSE LET run == CountAndMakeRun(items)
         IN BinaryInsertionSort(run.work, run.runLength + 1)

HasChat(items, chatId) == \E i \in 1..Len(items) : items[i].id = chatId

\* state.items.find((c) => c.id === chatId): the first match
FindChat(items, chatId) ==
    items[CHOOSE i \in 1..Len(items) :
            /\ items[i].id = chatId
            /\ \A j \in 1..(i - 1) : items[j].id # chatId]

updateChatUnreadCount(items, chatId, unreadCount) ==
    IF HasChat(items, chatId)
    THEN LET i == CHOOSE k \in 1..Len(items) :
                    items[k].id = chatId /\ \A j \in 1..(k - 1) : items[j].id # chatId
         IN [items EXCEPT ![i].unreadCount = unreadCount]
    ELSE items

updateChatLastMessage(items, chatId, ts) ==
    IF HasChat(items, chatId)
    THEN LET i == CHOOSE k \in 1..Len(items) :
                    items[k].id = chatId /\ \A j \in 1..(k - 1) : items[j].id # chatId
         IN SortByLastMessage([items EXCEPT ![i].lastMessageAt = ts])
    ELSE items

\* ------------------------------------------------- redux: messages slice
\* Array.prototype.reverse
Reverse(s) == [i \in 1..Len(s) |-> s[Len(s) + 1 - i]]

\* action.payload.length >= 50
HasMore(payload) == Len(payload) >= PageSize

\* chatsSlice
chatsInitial ==
    [items |-> <<>>, selectedId |-> 0, isLoading |-> FALSE, offset |-> 0, hasMore |-> TRUE]

setChats(state, payload) == [state EXCEPT !.items = payload, !.isLoading = FALSE]

appendChats(state, payload) ==
    [state EXCEPT !.items = @ \o payload,
                  !.offset = @ + Len(payload),
                  !.hasMore = HasMore(payload),
                  !.isLoading = FALSE]

selectChat(state, chatId) == [state EXCEPT !.selectedId = chatId]

setChatsLoading(state, payload) == [state EXCEPT !.isLoading = payload]

\* messagesSlice
messagesInitial == [items |-> <<>>, isLoading |-> FALSE, offset |-> 0, hasMore |-> TRUE]

setMessages(state, payload) ==
    [state EXCEPT !.items = Reverse(payload), !.offset = 0, !.isLoading = FALSE]

prependMessages(state, payload) ==
    [state EXCEPT !.items = Reverse(payload) \o @,
                  !.offset = @ + Len(payload),
                  !.hasMore = HasMore(payload),
                  !.isLoading = FALSE]

setMessagesLoading(state, payload) == [state EXCEPT !.isLoading = payload]

\* an appendMessage that puts the message first
appendMessage_Front(state, m) == [state EXCEPT !.items = <<m>> \o @]

appendMessage(state, m) == [state EXCEPT !.items = Append(@, m)]

clearMessages(state) == [state EXCEPT !.items = <<>>, !.offset = 0, !.hasMore = TRUE]

\* --------------------------------------------------------------- database
\* The database is held as what made it:
\*   seeds     the seedData() transactions that were committed, each with the
\*             clock it read and the number of uuidv4() values, chat rows and
\*             message rows that existed when it began;
\*   chats     the rows of table chats that an UPDATE has changed, and rows
\*             stored otherwise than by seedData();
\*   messages  the rows of table messages stored by addMessage.
\* The tables are functions of these (chatRow, messagesOf).  A text is a
\* sequence of characters.
Hey == <<"H", "e", "y">>

\* the texts seedData() draws from (two stand for the fifteen)
seedTexts == <<Hey, <<"O", "k">>>>

\* the texts the emitter draws from (one stands for the ten)
messageTexts == {Hey}

\* Math.floor(Math.random() * 50) + 100 messages for the j-th chat of a
\* batch: every count from 100 to 149 is drawn, by four chats each
SeedMessageCount(j) == SeedMessagesMin + ((j - 1) % SeedMessagesSpread)

\* the messages seedData() has stored when it comes to the j-th chat
SeedMessagesBefore(j) ==
    LET q == (j - 1) \div SeedMessagesSpread
        r == (j - 1) % SeedMessagesSpread
    IN SeedMessagesMin * (j - 1)
         + q * ((SeedMessagesSpread * (SeedMessagesSpread - 1)) \div 2)
         + (r * (r - 1)) \div 2

SeedMessageTotal == SeedMessagesBefore(SeedChatCount + 1)

\* the uuidv4() values one seedData() draws: one for each chat, then one for
\* each message
SeedUuids == SeedChatCount + SeedMessageTotal

\* Math.random() * 7 days of the i-th message of the j-th chat, in ms: the
\* draws are all different, the newest message of a chat is the first one
\* stored, the chats come in no order of age, and neither do the messages of
\* a chat
MessageAge(n, i) ==
    LET half == (n + 1) \div 2
    IN IF i <= half THEN 2 * i - 1 ELSE 2 * (i - half)
SeedAge(j, i) ==
    (((j - 1) * 3) % SeedChatCount) * SeedAgeStep + MessageAge(SeedMessageCount(j), i)

\* the ids of the chats of batch b: chats.map(() => uuidv4())
BatchChatIds(b) == (b.uuids + 1)..(b.uuids + SeedChatCount)

\* the row of the j-th chat of batch b after the transaction: lastMessageAt
\* is SELECT MAX(ts) of its messages, which is the ts of the first
SeedChatRow(b, j) ==
    [id |-> b.uuids + j, rowid |-> b.chats + j,
     lastMessageAt |-> b.at - SeedAge(j, 1), unreadCount |-> 0]

\* the row of the i-th message of the j-th chat of batch b; its body is
\* messages[Math.floor(Math.random() * messages.length)]
SeedMessageRow(b, j, i) ==
    [rowid |-> b.rows + SeedMessagesBefore(j) + i,
     id |-> b.uuids + SeedChatCount + SeedMessagesBefore(j) + i,
     chatId |-> b.uuids + j, ts |-> b.at - SeedAge(j, i),
     body |-> seedTexts[(i % Len(seedTexts)) + 1]]

EmptyDb == [seeds |-> <<>>, chats |-> <<>>, messages |-> {}]

\* the batch a chat id was made in (0: in none)
BatchOf(d, id) ==
    IF \E k \in 1..Len(d.seeds) : id \in BatchChatIds(d.seeds[k])
    THEN CHOOSE k \in 1..Len(d.seeds) : id \in BatchChatIds(d.seeds[k])
    ELSE 0

SeededChat(d, id) ==
    LET b == d.seeds[BatchOf(d, id)] IN SeedChatRow(b, id - b.uuids)

\* SELECT id FROM chats
ChatIds(d) ==
    UNION {BatchChatIds(d.seeds[k]) : k \in 1..Len(d.seeds)} \cup DOMAIN d.chats

\* SELECT * FROM chats WHERE id = ?
chatRow(d, id) == IF id \in DOMAIN d.chats THEN d.chats[id] ELSE SeededChat(d, id)

\* SELECT COUNT(*) FROM chats, FROM messages
ChatCount(d) ==
    Len(d.seeds) * SeedChatCount
      + Cardinality({id \in DOMAIN d.chats : BatchOf(d, id) = 0})
RowCount(d) == Len(d.seeds) * SeedMessageTotal + Cardinality(d.messages)

\* a set of rows as a sequence, in rowid order
RECURSIVE InRowidOrder(_)
InRowidOrder(rows) ==
    IF rows = {} THEN <<>>
    ELSE LET first == CHOOSE r \in rows : \A q \in rows : r.rowid <= q.rowid
         IN <<first>> \o InRowidOrder(rows \ {first})

\* the messages seedData() stored for a chat
SeededMessages(d, chatId) ==
    IF BatchOf(d, chatId) = 0 THEN <<>>
    ELSE LET b == d.seeds[BatchOf(d, chatId)]
             j == chatId - b.uuids
         IN [i \in 1..SeedMessageCount(j) |-> SeedMessageRow(b, j, i)]

\* SELECT * FROM messages WHERE chatId = ?
MessageScan(d, chatId) ==
    SeededMessages(d, chatId) \o InRowidOrder({r \in d.messages : r.chatId = chatId})

messagesOf(d, chatId) ==
    LET scan == MessageScan(d, chatId) IN {scan[i] : i \in 1..Len(scan)}

\* SELECT * FROM chats
RECURSIVE SeededChats(_, _)
SeededChats(d, k) ==
    IF k = 0 THEN <<>>
    ELSE SeededChats(d, k - 1)
           \o [j \in 1..SeedChatCount |-> chatRow(d, d.seeds[k].uuids + j)]

ChatScan(d) ==
    SeededChats(d, Len(d.seeds))
      \o InRowidOrder({d.chats[id] : id \in {c \in DOMAIN d.chats : BatchOf(d, c) = 0}})

\* ORDER BY ts DESC; rows of equal ts come in the order of the scan, which is
\* the order of their rowid (the sorter key ends with a sequence number, the
\* index idx_chat_ts with the rowid)
MessageBefore(a, b) == a.ts > b.ts \/ (a.ts = b.ts /\ a.rowid < b.rowid)
OrderByTsDesc(rows) == SortSeq(rows, MessageBefore)

\* ORDER BY lastMessageAt DESC, equal lastMessageAt in rowid order
ChatBefore(a, b) ==
    \/ a.lastMessageAt > b.lastMessageAt
    \/ a.lastMessageAt = b.lastMessageAt /\ a.rowid < b.rowid
OrderChats(rows) == SortSeq(rows, ChatBefore)

\* an OFFSET that skips nothing
Drop_NoOffset(s, n) == s

\* LIMIT n and OFFSET n: a negative LIMIT is no limit, a negative OFFSET is 0
Take(s, n) == IF n < 0 THEN s ELSE SubSeq(s, 1, Min(n, Len(s)))
Drop(s, n) == IF n < 0 THEN s ELSE SubSeq(s, Min(n, Len(s)) + 1, Len(s))

\* SELECT id, chatId, ts, sender, body
MessageColumns(r) == [id |-> r.id, chatId |-> r.chatId, ts |-> r.ts, body |-> r.body]

\* SELECT id, title, lastMessageAt, unreadCount
ChatColumns(r) == [id |-> r.id, lastMessageAt |-> r.lastMessageAt, unreadCount |-> r.unreadCount]

Project(rs) == [i \in 1..Len(rs) |-> MessageColumns(rs[i])]
ProjectChats(rs) == [i \in 1..Len(rs) |-> ChatColumns(rs[i])]

getMessages(d, chatId, limit, offset) ==
    Project(Take(Drop(OrderByTsDesc(MessageScan(d, chatId)), offset), limit))

getChats(d, limit, offset) ==
    ProjectChats(Take(Drop(OrderChats(ChatScan(d)), offset), limit))

\* SQLite's LIKE compares ASCII letters without regard to case
Lower(ch) ==
    CASE ch = "A" -> "a"
      [] ch = "B" -> "b"
      [] ch = "H" -> "h"
      [] ch = "O" -> "o"
      [] OTHER -> ch

\* text LIKE pattern: % matches any run of characters, _ any one character
RECURSIVE Like(_, _)
Like(pattern, text) ==
    IF pattern = <<>> THEN text = <<>>
    ELSE IF Head(pattern) = "%"
         THEN Like(Tail(pattern), text) \/ (text # <<>> /\ Like(pattern, Tail(text)))
         ELSE /\ text # <<>>
              /\ Head(pattern) = "_" \/ Lower(Head(pattern)) = Lower(Head(text))
              /\ Like(Tail(pattern), Tail(text))

\* WHERE chatId = ? AND body LIKE `%${query}%`
Matching(d, chatId, query) ==
    LET Matches(r) == Like(<<"%">> \o query \o <<"%">>, r.body)
    IN SelectSeq(MessageScan(d, chatId), Matches)

\* searchMessages(chatId, query): ORDER BY ts DESC LIMIT 50
searchMessages(d, chatId, query) ==
    Project(Take(OrderByTsDesc(Matching(d, chatId, query)), PageSize))

\* the table chats with the row of one chat replaced
WriteChat(d, row) ==
    IF BatchOf(d, row.id) # 0 /\ row = SeededChat(d, row.id)
    THEN [d EXCEPT !.chats = [c \in DOMAIN @ \ {row.id} |-> @[c]]]
    ELSE [d EXCEPT !.chats = [c \in DOMAIN @ \cup {row.id} |->
                                 IF c = row.id THEN row ELSE @[c]]]

\* the UPDATE without its WHERE clause
markChatAsRead_EveryChat(d, chatId) ==
    [d EXCEPT !.chats = [c \in ChatIds(d) |-> [chatRow(d, c) EXCEPT !.unreadCount = 0]]]

\* UPDATE chats SET unreadCount = 0 WHERE id = ?
markChatAsRead(d, chatId) ==
    IF chatId \in ChatIds(d)
    THEN WriteChat(d, [chatRow(d, chatId) EXCEPT !.unreadCount = 0])
    ELSE d

\* an UPDATE that marks the chat unread without counting
addMessageChats_FlagOnly(d, chatId, ts) ==
    IF chatId \in ChatIds(d)
    THEN WriteChat(d, [chatRow(d, chatId) EXCEPT !.lastMessageAt = ts, !.unreadCount = 1])
    ELSE d

\* an UPDATE that counts the message and leaves lastMessageAt alone
addMessageChats_CountOnly(d, chatId, ts) ==
    IF chatId \in ChatIds(d)
    THEN WriteChat(d, [chatRow(d, chatId) EXCEPT !.unreadCount = @ + 1])
    ELSE d

\* UPDATE chats SET lastMessageAt = ?, unreadCount = unreadCount + 1 WHERE id = ?
addMessageChats(d, chatId, ts) ==
    IF chatId \in ChatIds(d)
    THEN WriteChat(d, [chatRow(d, chatId) EXCEPT !.lastMessageAt = ts,
                                                 !.unreadCount = @ + 1])
    ELSE d

\* INSERT INTO messages (id, chatId, ts, sender, body, createdAt)
\* VALUES (uuidv4(), chatId, ts, sender, body, Date.now())
addMessageRows(d, id, chatId, body, ts) ==
    [d EXCEPT !.messages = @ \cup {[rowid |-> RowCount(d) + 1, id |-> id,
                                    chatId |-> chatId, ts |-> ts, body |-> body]}]

\* a transaction that keeps what its statements did before one threw
Rollback_KeepPartial(before, partial) == partial

\* database.transaction(fn): the changes of fn are kept when fn returns and
\* undone when a statement throws
Rollback(before, partial) == before

\* an addMessage that swallows the error of its transaction and returns
addMessage_ReturnsOnFailure(d, id, chatId, body, ts, fault) ==
    IF fault = "none" /\ chatId \in ChatIds(d)
    THEN [db |-> addMessageChats(addMessageRows(d, id, chatId, body, ts), chatId, ts),
          ok |-> TRUE]
    ELSE [db |-> d, ok |-> TRUE]

\* addMessage(chatId, sender, body, ts), id being the uuidv4() it draws; the
\* INSERT also fails when chatId is no chat (FOREIGN KEY, enforced by
\* better-sqlite3).  ok is FALSE when the call throws.
addMessage(d, id, chatId, body, ts, fault) ==
    LET before == [db |-> d, ok |-> FALSE]
        inserted == [before EXCEPT !.db = addMessageRows(d, id, chatId, body, ts)]
        updated == [inserted EXCEPT !.db = addMessageChats(@, chatId, ts), !.ok = TRUE]
    IN IF fault = "insert" \/ chatId \notin ChatIds(d) THEN Rollback(before, before)
       ELSE IF fault = "update" THEN Rollback(before, inserted)
       ELSE updated

\* seedData(), t being the Date.now() it reads and u the number of uuidv4()
\* values drawn before: 200 new chats under fresh ids, each with its messages
seedData(d, t, u) ==
    [d EXCEPT !.seeds = Append(@, [at |-> t, uuids |-> u, chats |-> ChatCount(d),
                                   rows |-> RowCount(d)])]

\* ------------------------------------------------------------- WebSocket
\* stalled: the peer of the server's session has stopped answering (no pong,
\* no close); unanswered: the pings the server sent it since the last pong
FreeSocket == [rs |-> "CLOSED", srv |-> "none", inbox |-> <<>>, failed |-> FALSE,
               stalled |-> FALSE, unanswered |-> 0]
NewSocket == [rs |-> "CONNECTING", srv |-> "none", inbox |-> <<>>, failed |-> FALSE,
              stalled |-> FALSE, unanswered |-> 0]

IsFree(s) == sockets[s].rs = "CLOSED" /\ task # s
HasFree == \E s \in Socks : IsFree(s)
LowestFree == CHOOSE s \in Socks : IsFree(s) /\ \A t \in Socks : IsFree(t) => s <= t

\* WebSocket.close(): CONNECTING fails the connection, OPEN starts the closing
\* handshake; frames that arrive from then on are discarded.
CloseSocket(sock) ==
    IF sock.rs = "CONNECTING" THEN [sock EXCEPT !.rs = "CLOSING", !.failed = TRUE, !.inbox = <<>>]
    ELSE IF sock.rs = "OPEN" THEN [sock EXCEPT !.rs = "CLOSING", !.inbox = <<>>]
    ELSE sock

\* the server's send on a session it holds open
Send(sock, e) ==
    IF sock.srv = "open" /\ sock.rs \in {"CONNECTING", "OPEN"}
    THEN [sock EXCEPT !.inbox = Append(@, e)]
    ELSE sock

\* the clock when initializeDatabase() runs
StartTime == SevenDays

\* the state after construction, database being what initializeDatabase()
\* has left and drawn uuidv4() values for; sockCredit, tickQuota and
\* faultBudget are the bounds of the run
InitOver(database, drawn, sockCredit, tickQuota, faultBudget, clickBudget) ==
    /\ store = FALSE
    /\ ws = 0
    /\ reconnectAttempt = 0
    /\ heartbeatTimeout = "null"
    /\ reconnectTimeout = "null"
    /\ orphanTimers = 0
    /\ sockets = [s \in Socks |-> FreeSocket]
    /\ task = 0
    /\ connection = connectionInitial
    /\ chats = chatsInitial
    /\ messages = messagesInitial
    /\ db = database
    /\ uuids = drawn
    /\ now = StartTime + 1
    /\ emitted = <<>>
    /\ lastDelay = 0
    /\ applied = [i \in 1..MaxMsgs |-> 0]
    /\ disconnected = FALSE
    /\ quota = tickQuota
    /\ credit = sockCredit
    /\ entries = 0
    /\ attempts = 0
    /\ faults = faultBudget
    /\ reply = [op |-> "none"]
    /\ calls = <<>>
    /\ clicks = clickBudget

\* initializeDatabase() on a new file: the tables are empty, so it seeds
SeededDb == seedData(EmptyDb, StartTime, 0)

InitWith(sockCredit, tickQuota, faultBudget, clickBudget) ==
    InitOver(SeededDb, SeedUuids, sockCredit, tickQuota, faultBudget, clickBudget)

\* ----------------------------------------------------- WebSocketClient
\* attemptConnection(): this.ws = new WebSocket(...), handlers attached
AttemptConnection(socks) ==
    /\ credit > 0
    /\ credit' = credit - 1
    /\ sockets' = [socks EXCEPT ![LowestFree] = NewSocket]
    /\ ws' = LowestFree

\* the private counter after scheduleReconnect's increment
NextAttempt(n) == n + 1

\* the delay scheduleReconnect hands to setTimeout
ReconnectDelay(attempt) == Backoff(attempt)

\* the value the reconnect timer's callback stores in this.reconnectAttempt
TimerAttempt(conn) == conn.reconnectAttempt

\* scheduleReconnect's early return
AttemptsExhausted(n) == n >= maxReconnectAttempts

\* scheduleReconnect(), the redux connection slice being conn when it is called
ScheduleReconnect(conn) ==
    IF AttemptsExhausted(reconnectAttempt)
    THEN /\ connection' = conn
         /\ UNCHANGED <<clicks, reconnectAttempt, reconnectTimeout, orphanTimers, lastDelay>>
    ELSE /\ reconnectAttempt' = NextAttempt(reconnectAttempt)
         /\ connection' = IF store THEN incrementReconnectAttempt(conn) ELSE conn
         /\ lastDelay' = ReconnectDelay(NextAttempt(reconnectAttempt))
         /\ orphanTimers' = IF reconnectTimeout = "pending" THEN orphanTimers + 1 ELSE orphanTimers
         /\ reconnectTimeout' = "pending"

\* wsClient.connect(store)
Connect ==
    /\ task = 0
    /\ ~store \/ disconnected
    /\ HasFree
    /\ store' = TRUE
    /\ AttemptConnection(sockets)
    /\ disconnected' = FALSE
    /\ UNCHANGED <<clicks, calls, faults, reply, reconnectAttempt, heartbeatTimeout, reconnectTimeout,
                   orphanTimers, task, connection, chats, messages, db, uuids, now, emitted,
                   lastDelay, applied, quota, entries, attempts>>

\* wsClient.disconnect(), which the cleanup of App's effect calls
Disconnect ==
    /\ task = 0
    /\ store /\ ~disconnected
    /\ heartbeatTimeout' = "null"
    /\ reconnectTimeout' = IF reconnectTimeout = "pending" THEN "done" ELSE reconnectTimeout
    /\ IF ws # 0
       THEN /\ sockets' = [sockets EXCEPT ![ws] = CloseSocket(@)]
            /\ ws' = 0
       ELSE UNCHANGED <<sockets, ws>>
    /\ disconnected' = TRUE
    /\ UNCHANGED <<clicks, calls, faults, reply, store, reconnectAttempt, orphanTimers, task, connection, chats, messages,
                   db, uuids, now, emitted, lastDelay, applied, quota,
                   credit, entries, attempts>>

\* simulateConnectionDrop() of the client
ClientDrop ==
    /\ task = 0
    /\ ws # 0
    /\ sockets[ws].rs \in {"CONNECTING", "OPEN"}
    /\ sockets' = [sockets EXCEPT ![ws] = CloseSocket(@)]
    /\ UNCHANGED <<clicks, calls, faults, reply, store, ws, reconnectAttempt, heartbeatTimeout, reconnectTimeout,
                   orphanTimers, task, connection, chats, messages, db,
                   uuids, now, emitted, lastDelay, applied, disconnected, quota, credit,
                   entries, attempts>>

\* ws.onopen
SocketOpen(s) ==
    /\ task = 0
    /\ sockets[s].rs = "CONNECTING"
    /\ sockets[s].srv # "none"
    /\ sockets' = [sockets EXCEPT ![s].rs = "OPEN"]
    /\ connection' = IF store THEN setConnectionState(connection, "connected") ELSE connection
    /\ heartbeatTimeout' = "pending"
    /\ entries' = 0
    /\ attempts' = 0
    /\ UNCHANGED <<clicks, calls, faults, reply, store, ws, reconnectAttempt, reconnectTimeout, orphanTimers, task, chats,
                   messages, db, uuids, now, emitted, lastDelay, applied,
                   disconnected, quota, credit>>

\* the frame is an event the emitter has broadcast
IsEmitted(e) == \E i \in 1..Len(emitted) : emitted[i].messageId = e.messageId

EventIndex(e) == CHOOSE i \in 1..Len(emitted) : emitted[i].messageId = e.messageId

\* unreadCount: state.chats.items.find(...)?.unreadCount || 0 + 1
UnreadPayload(items, chatId) ==
    IF HasChat(items, chatId) /\ FindChat(items, chatId).unreadCount # 0
    THEN FindChat(items, chatId).unreadCount
    ELSE 0 + 1

\* ws.onmessage: a frame JSON.parse rejects goes to the catch, 'connected'
\* returns at once, 'newMessage' is applied as it is, any other frame only
\* restarts the heartbeat
SocketMessage(s) ==
    /\ task = 0
    /\ sockets[s].rs = "OPEN"
    /\ sockets[s].inbox # <<>>
    /\ Head(sockets[s].inbox).type # "close"
    /\ sockets' = [sockets EXCEPT ![s].inbox = Tail(@)]
    /\ LET e == Head(sockets[s].inbox) IN
       IF e.type \in {"connected", "unparseable"}
       THEN UNCHANGED <<chats, messages, applied, heartbeatTimeout>>
       ELSE IF e.type # "newMessage"
       THEN /\ heartbeatTimeout' = "pending"
            /\ UNCHANGED <<chats, messages, applied>>
       ELSE /\ LET items1 == updateChatLastMessage(chats.items, e.chatId, e.ts) IN
               IF chats.selectedId = e.chatId
               THEN /\ chats' = [chats EXCEPT !.items = items1]
                    /\ messages' = appendMessage(messages,
                                      [id |-> e.messageId, chatId |-> e.chatId, ts |-> e.ts,
                                       body |-> e.body])
               ELSE /\ chats' = [chats EXCEPT !.items =
                                   updateChatUnreadCount(items1, e.chatId,
                                                         UnreadPayload(chats.items, e.chatId))]
                    /\ UNCHANGED messages
            /\ applied' = IF IsEmitted(e) THEN [applied EXCEPT ![EventIndex(e)] = @ + 1]
                                          ELSE applied
            /\ heartbeatTimeout' = "pending"
    /\ UNCHANGED <<clicks, calls, faults, reply, store, ws, reconnectAttempt, reconnectTimeout, orphanTimers, task,
                   connection, db, uuids, now, emitted, lastDelay,
                   disconnected, quota, credit, entries, attempts>>

\* ws.onerror: the connection failed (refused, lost, or closed before it was
\* established); the close event follows in the same task
SocketError(s) ==
    /\ task = 0
    /\ \/ sockets[s].rs \in {"CONNECTING", "OPEN"}
       \/ sockets[s].rs = "CLOSING" /\ sockets[s].failed
    /\ sockets' = [sockets EXCEPT ![s] = FreeSocket]
    /\ task' = s
    /\ connection' = IF store THEN setConnectionState(connection, "offline") ELSE connection
    /\ UNCHANGED <<clicks, calls, faults, reply, store, ws, reconnectAttempt, heartbeatTimeout, reconnectTimeout,
                   orphanTimers, chats, messages, db, uuids, now, emitted,
                   lastDelay, applied, disconnected, quota, credit, entries, attempts>>

\* ws.onclose
SocketClose(s) ==
    /\ \/ task = s
       \/ /\ task = 0
          /\ \/ sockets[s].rs = "CLOSING" /\ ~sockets[s].failed
             \/ /\ sockets[s].rs = "OPEN"
                /\ sockets[s].inbox # <<>>
                /\ Head(sockets[s].inbox).type = "close"
    /\ (reconnectTimeout = "pending" /\ ~AttemptsExhausted(reconnectAttempt))
          => orphanTimers < MaxOrphans
    /\ sockets' = [sockets EXCEPT ![s] = FreeSocket]
    /\ task' = 0
    /\ heartbeatTimeout' = "null"
    /\ ScheduleReconnect(IF store THEN setConnectionState(connection, "reconnecting")
                         ELSE connection)
    /\ entries' = entries + 1
    /\ UNCHANGED <<clicks, calls, faults, reply, store, ws, chats, messages, db, uuids, now, emitted,
                   applied, disconnected, quota, credit, attempts>>

\* the callback of resetHeartbeat's timer
HeartbeatFire ==
    /\ task = 0
    /\ heartbeatTimeout = "pending"
    /\ heartbeatTimeout' = IF ws # 0 /\ sockets[ws].rs = "OPEN" THEN "sent" ELSE "skipped"
    /\ UNCHANGED <<clicks, calls, faults, reply, store, ws, reconnectAttempt, reconnectTimeout, orphanTimers, sockets, task,
                   connection, chats, messages, db, uuids, now, emitted,
                   lastDelay, applied, disconnected, quota, credit, entries, attempts>>

\* the callback of scheduleReconnect's timer
ReconnectFire ==
    /\ task = 0
    /\ HasFree
    /\ \/ /\ reconnectTimeout = "pending"
          /\ reconnectTimeout' = "done"
          /\ UNCHANGED orphanTimers
       \/ /\ orphanTimers > 0
          /\ orphanTimers' = orphanTimers - 1
          /\ UNCHANGED reconnectTimeout
    /\ reconnectAttempt' = TimerAttempt(connection)
    /\ AttemptConnection(sockets)
    /\ attempts' = attempts + 1
    /\ UNCHANGED <<clicks, calls, faults, reply, store, heartbeatTimeout, task, connection, chats, messages, db, uuids, now, emitted, lastDelay, applied, disconnected, quota,
                   entries>>

\* -------------------------------------------------------------- server
\* wss.on('connection'): the session is registered and greeted
ServerAccept(s) ==
    /\ task = 0
    /\ sockets[s].rs = "CONNECTING"
    /\ sockets[s].srv = "none"
    /\ sockets' = [sockets EXCEPT ![s].srv = "open", ![s].inbox = <<[type |-> "connected"]>>]
    /\ UNCHANGED <<clicks, calls, faults, reply, store, ws, reconnectAttempt, heartbeatTimeout, reconnectTimeout,
                   orphanTimers, task, connection, chats, messages, db,
                   uuids, now, emitted, lastDelay, applied, disconnected, quota, credit,
                   entries, attempts>>

\* the peer of an open session stops answering: it sends no pong and no close
PeerStalls(s) ==
    /\ task = 0
    /\ sockets[s].srv = "open"
    /\ sockets[s].rs = "OPEN"
    /\ ~sockets[s].stalled
    /\ sockets' = [sockets EXCEPT ![s].stalled = TRUE]
    /\ UNCHANGED <<clicks, calls, faults, reply, store, ws, reconnectAttempt, heartbeatTimeout, reconnectTimeout,
                   orphanTimers, task, connection, chats, messages, db,
                   uuids, now, emitted, lastDelay, applied, disconnected, quota, credit,
                   entries, attempts>>

\* the session's heartbeat interval: ws.ping() when the session is open; the
\* 'pong' handler does nothing, and nothing looks at a missing pong
ServerHeartbeat(s) ==
    /\ task = 0
    /\ sockets[s].srv = "open"
    /\ sockets' = [sockets EXCEPT ![s].unanswered =
                      IF sockets[s].stalled THEN Min(@ + 1, MaxUnanswered) ELSE 0]
    /\ UNCHANGED <<clicks, calls, faults, reply, store, ws, reconnectAttempt, heartbeatTimeout, reconnectTimeout,
                   orphanTimers, task, connection, chats, messages, db,
                   uuids, now, emitted, lastDelay, applied, disconnected, quota, credit,
                   entries, attempts>>

\* the chats the model draws for ORDER BY RANDOM() LIMIT 1, for the frames of
\* a peer and for the user's clicks: of the seeded chats the newest, the
\* fourth and the fifth of the listing, and one that is not on the first
\* page
FirstChat == 1
FourthChat == 2
FifthChat == 69
FarChat == 18
EmitterChats == {FirstChat, FarChat}
ClickChats == {FirstChat, FourthChat}

\* an id no stored message has
PeerMessageId == 0

\* frames the emitter never builds: text that is no JSON, a type the client
\* does not know, and newMessage events with one field missing
MalformedFrames ==
    {[type |-> "unparseable"], [type |-> "pong"]}
    \cup {[type |-> "newMessage", chatId |-> Undefined, messageId |-> PeerMessageId,
           ts |-> StartTime + 1, body |-> Hey]}
    \cup {[type |-> "newMessage", chatId |-> c, messageId |-> Undefined,
           ts |-> StartTime + 1, body |-> Hey] : c \in ClickChats}
    \cup {[type |-> "newMessage", chatId |-> c, messageId |-> PeerMessageId,
           ts |-> StartTime + 1, body |-> UndefinedText] : c \in ClickChats}
    \cup {[type |-> "newMessage", chatId |-> c, messageId |-> PeerMessageId,
           ts |-> Undefined, body |-> Hey] : c \in ClickChats}

\* newMessage events as the emitter builds them, of a chat of the list or of
\* one that is not listed, with the lastMessageAt of the newest chat or of
\* the fourth as ts, or a ts newer than every message; and one of the chat
\* listed after the fourth, newer than every message
EventFrames ==
    {[type |-> "newMessage", chatId |-> c, messageId |-> PeerMessageId, ts |-> t,
      body |-> Hey] :
        c \in {FirstChat, FourthChat, FarChat},
        t \in {StartTime - SeedAge(FirstChat, 1), StartTime - SeedAge(FourthChat, 1),
               StartTime + 1}}
    \cup {[type |-> "newMessage", chatId |-> FifthChat, messageId |-> PeerMessageId,
           ts |-> StartTime + 1, body |-> Hey]}

\* the peer sends a frame on an open session
PeerFrame(s, f) ==
    /\ task = 0
    /\ sockets[s].rs = "OPEN"
    /\ sockets[s].srv = "open"
    /\ sockets[s].inbox = <<>>
    /\ quota > 0
    /\ quota' = quota - 1
    /\ sockets' = [sockets EXCEPT ![s].inbox = <<f>>]
    /\ UNCHANGED <<clicks, calls, faults, reply, store, ws, reconnectAttempt, heartbeatTimeout, reconnectTimeout,
                   orphanTimers, task, connection, chats, messages, db,
                   uuids, now, emitted, lastDelay, applied, disconnected, credit,
                   entries, attempts>>

\* the event the emitter builds: messageId is its own uuidv4()
NewMessageEvent(chatId, messageId, body, ts) ==
    [type |-> "newMessage", chatId |-> chatId, messageId |-> messageId, ts |-> ts,
     body |-> body]

\* a broadcast that does not look at the session's readyState
Broadcast_Every(socks, e) == [s \in Socks |-> [socks[s] EXCEPT !.inbox = Append(@, e)]]

\* the broadcast: the event goes to every session that is open
Broadcast(socks, e) == [s \in Socks |-> Send(socks[s], e)]

\* one tick of startMessageEmitter's interval, for the chat and the text it
\* drew; addMessage may throw (fault), which the tick's catch logs
EmitterTick(chatId, body, fault) ==
    /\ task = 0
    /\ chatId \in ChatIds(db)
    /\ IF fault = "none"
       THEN quota > 0 /\ quota' = quota - 1 /\ UNCHANGED faults
       ELSE faults > 0 /\ faults' = faults - 1 /\ UNCHANGED quota
    /\ LET messageId == uuids + 1
           rowId == uuids + 2
           e == NewMessageEvent(chatId, messageId, body, now)
           r == addMessage(db, rowId, chatId, body, now, fault)
       IN /\ db' = r.db
          /\ IF r.ok
             THEN /\ sockets' = Broadcast(sockets, e)
                  /\ emitted' = Append(emitted,
                         [chatId |-> chatId, messageId |-> messageId, rowId |-> rowId,
                          ts |-> now, body |-> body,
                          sent |-> Cardinality({s \in Socks : sockets[s].srv = "open"})])
             ELSE UNCHANGED <<sockets, emitted>>
    /\ uuids' = uuids + 2
    /\ now' = now + 1
    /\ UNCHANGED <<clicks, calls, reply, store, ws, reconnectAttempt, heartbeatTimeout, reconnectTimeout,
                   orphanTimers, task, connection, chats, messages, lastDelay, applied,
                   disconnected, credit, entries, attempts>>

\* a tick of the interval that finds no chat: chats.length === 0, return
EmitterTickIdle ==
    /\ task = 0
    /\ ChatIds(db) = {}
    /\ quota > 0
    /\ quota' = quota - 1
    /\ UNCHANGED <<clicks, calls, faults, reply, store, ws, reconnectAttempt, heartbeatTimeout, reconnectTimeout,
                   orphanTimers, sockets, task, connection, chats, messages, db,
                   uuids, now, emitted, lastDelay, applied, disconnected, credit, entries,
                   attempts>>

\* simulateConnectionDrop() of the server: every session is closed
ServerDrop ==
    /\ task = 0
    /\ \E s \in Socks : sockets[s].srv = "open"
    /\ sockets' = [s \in Socks |->
                     IF sockets[s].srv = "open"
                     THEN [Send(sockets[s], [type |-> "close"]) EXCEPT !.srv = "closed"]
                     ELSE sockets[s]]
    /\ UNCHANGED <<clicks, calls, faults, reply, store, ws, reconnectAttempt, heartbeatTimeout, reconnectTimeout,
                   orphanTimers, task, connection, chats, messages, db,
                   uuids, now, emitted, lastDelay, applied, disconnected, quota, credit,
                   entries, attempts>>

\* ------------------------------------------------------------------ IPC
\* window.electronAPI.<op>(...) is ipcRenderer.invoke: the call waits until
\* the main process runs its handler (served), and the reply waits until the
\* renderer runs the code after the await.  Handlers run and replies come
\* back in the order of the calls.  from is the function that awaits.
IpcCall(op, from, chatId, offset) ==
    [op |-> op, from |-> from, chatId |-> chatId, offset |-> offset,
     served |-> FALSE, result |-> <<>>]

\* the calls the main process has not handled yet, and the first of them
Unserved == {i \in 1..Len(calls) : ~calls[i].served}
NextCall == CHOOSE i \in Unserved : \A j \in Unserved : i <= j

\* the main process is to run the handler of op
Serving(op) == task = 0 /\ Unserved # {} /\ calls[NextCall].op = op

\* the handler has returned result
Served(result) == [calls EXCEPT ![NextCall].served = TRUE, ![NextCall].result = result]

\* the reply of a call made by from has arrived
Replied(from) ==
    task = 0 /\ calls # <<>> /\ Head(calls).served /\ Head(calls).from = from

\* a handler of the view has begun for chatId, the table holding so many
\* messages that addMessage stored for the chat
Selection(chatId) ==
    [op |-> "selectChat", chatId |-> chatId,
     inserted |-> Cardinality({r \in db.messages : r.chatId = chatId})]

\* what a handler of the view has read last: the page it asked for and the
\* number of items it got
PageRead(op, chatId, offset, page) ==
    [op |-> op, chatId |-> chatId, limit |-> PageSize, offset |-> offset,
     count |-> Len(page)]

\* ipcMain.handle('db:getChats')
ServeGetChats ==
    /\ Serving("getChats")
    /\ calls' = Served(getChats(db, PageSize, calls[NextCall].offset))
    /\ UNCHANGED <<clicks, faults, reply, store, ws, reconnectAttempt, heartbeatTimeout, reconnectTimeout,
                   orphanTimers, sockets, task, connection, chats, messages, db, uuids, now,
                   emitted, lastDelay, applied, disconnected, quota, credit, entries, attempts>>

\* ipcMain.handle('db:getMessages')
ServeGetMessages ==
    /\ Serving("getMessages")
    /\ calls' = Served(getMessages(db, calls[NextCall].chatId, PageSize, calls[NextCall].offset))
    /\ UNCHANGED <<clicks, faults, reply, store, ws, reconnectAttempt, heartbeatTimeout, reconnectTimeout,
                   orphanTimers, sockets, task, connection, chats, messages, db, uuids, now,
                   emitted, lastDelay, applied, disconnected, quota, credit, entries, attempts>>

\* ipcMain.handle('db:markChatAsRead')
ServeMarkChatAsRead ==
    /\ Serving("markChatAsRead")
    /\ db' = markChatAsRead(db, calls[NextCall].chatId)
    /\ calls' = Served(<<>>)
    /\ UNCHANGED <<clicks, faults, reply, store, ws, reconnectAttempt, heartbeatTimeout, reconnectTimeout,
                   orphanTimers, sockets, task, connection, chats, messages, uuids, now,
                   emitted, lastDelay, applied, disconnected, quota, credit, entries, attempts>>

\* ipcMain.handle('db:seedData')
ServeSeedData ==
    /\ Serving("seedData")
    /\ db' = seedData(db, now, uuids)
    /\ uuids' = uuids + SeedUuids
    /\ now' = now + 1
    /\ calls' = Served(<<>>)
    /\ UNCHANGED <<clicks, faults, reply, store, ws, reconnectAttempt, heartbeatTimeout, reconnectTimeout,
                   orphanTimers, sockets, task, connection, chats, messages,
                   emitted, lastDelay, applied, disconnected, quota, credit, entries, attempts>>

\* ------------------------------------------------------------ ChatList
\* loadChats() up to its await, on the chats slice and the pending calls it
\* finds: nothing when a load is under way or hasMore is false
loadChats(state, pending) ==
    IF state.isLoading \/ ~state.hasMore
    THEN [chats |-> state, calls |-> pending]
    ELSE [chats |-> setChatsLoading(state, TRUE),
          calls |-> Append(pending, IpcCall("getChats", "loadChats", 0, state.offset))]

\* handleLoadMore (the button is disabled while isLoading or when hasMore is
\* false)
LoadChats ==
    /\ task = 0
    /\ ~disconnected
    /\ clicks > 0
    /\ clicks' = clicks - 1
    /\ store
    /\ ~chats.isLoading
    /\ chats.hasMore
    /\ Len(calls) < MaxCalls
    /\ chats' = loadChats(chats, calls).chats
    /\ calls' = loadChats(chats, calls).calls
    /\ UNCHANGED <<faults, reply, store, ws, reconnectAttempt, heartbeatTimeout, reconnectTimeout,
                   orphanTimers, sockets, task, connection, messages, db, uuids, now,
                   emitted, lastDelay, applied, disconnected, quota, credit, entries, attempts>>

\* loadChats() after its await: setChats for offset 0, appendChats otherwise
LoadChatsReply ==
    /\ Replied("loadChats")
    /\ LET call == Head(calls)
       IN /\ chats' = IF call.offset = 0 THEN setChats(chats, call.result)
                                         ELSE appendChats(chats, call.result)
          /\ reply' = PageRead("loadChats", 0, call.offset, call.result)
    /\ calls' = Tail(calls)
    /\ UNCHANGED <<clicks, faults, store, ws, reconnectAttempt, heartbeatTimeout, reconnectTimeout,
                   orphanTimers, sockets, task, connection, messages, db, uuids, now,
                   emitted, lastDelay, applied, disconnected, quota, credit, entries, attempts>>

\* handleSelectChat(chat) up to its first await, chat being a row of the list
SelectChat(chatId) ==
    /\ task = 0
    /\ ~disconnected
    /\ clicks > 0
    /\ clicks' = clicks - 1
    /\ HasChat(chats.items, chatId)
    /\ Len(calls) < MaxCalls
    /\ chats' = selectChat(chats, chatId)
    /\ messages' = clearMessages(messages)
    /\ calls' = Append(calls,
                   IF FindChat(chats.items, chatId).unreadCount > 0
                   THEN IpcCall("markChatAsRead", "handleSelectChat", chatId, 0)
                   ELSE IpcCall("getMessages", "handleSelectChat", chatId, 0))
    /\ reply' = Selection(chatId)
    /\ UNCHANGED <<faults, store, ws, reconnectAttempt, heartbeatTimeout, reconnectTimeout,
                   orphanTimers, sockets, task, connection, db, uuids, now,
                   emitted, lastDelay, applied, disconnected, quota, credit, entries, attempts>>

\* handleSelectChat after await markChatAsRead: the counter of the list is
\* cleared and the first page is asked for
MarkReadReply ==
    /\ Replied("handleSelectChat")
    /\ Head(calls).op = "markChatAsRead"
    /\ LET chatId == Head(calls).chatId
       IN /\ chats' = [chats EXCEPT !.items = updateChatUnreadCount(chats.items, chatId, 0)]
          /\ calls' = Append(Tail(calls), IpcCall("getMessages", "handleSelectChat", chatId, 0))
    /\ UNCHANGED <<clicks, faults, reply, store, ws, reconnectAttempt, heartbeatTimeout, reconnectTimeout,
                   orphanTimers, sockets, task, connection, messages, db, uuids, now,
                   emitted, lastDelay, applied, disconnected, quota, credit, entries, attempts>>

\* handleSelectChat after await getMessages(chat.id, 50, 0): setMessages
FirstPageReply ==
    /\ Replied("handleSelectChat")
    /\ Head(calls).op = "getMessages"
    /\ LET call == Head(calls)
       IN /\ messages' = setMessages(messages, call.result)
          /\ reply' = PageRead("handleSelectChat", call.chatId, 0, call.result)
    /\ calls' = Tail(calls)
    /\ UNCHANGED <<clicks, faults, store, ws, reconnectAttempt, heartbeatTimeout, reconnectTimeout,
                   orphanTimers, sockets, task, connection, chats, db, uuids,
                   now, emitted, lastDelay, applied, disconnected, quota, credit, entries,
                   attempts>>

\* --------------------------------------------------------- MessageView
\* handleLoadOlderMessages() up to its await: setMessagesLoading(true) and the
\* call, with the selectedChatId and the offset of this render
LoadOlderMessages ==
    /\ task = 0
    /\ ~disconnected
    /\ clicks > 0
    /\ clicks' = clicks - 1
    /\ chats.selectedId # 0
    /\ ~messages.isLoading
    /\ messages.hasMore
    /\ Len(calls) < MaxCalls
    /\ Len(messages.items) < MaxViewItems
    /\ messages' = setMessagesLoading(messages, TRUE)
    /\ calls' = Append(calls, IpcCall("getMessages", "handleLoadOlderMessages",
                                      chats.selectedId, messages.offset))
    /\ UNCHANGED <<faults, reply, store, ws, reconnectAttempt, heartbeatTimeout, reconnectTimeout,
                   orphanTimers, sockets, task, connection, chats, db,
                   uuids, now, emitted, lastDelay, applied, disconnected, quota, credit,
                   entries, attempts>>

\* handleLoadOlderMessages after its await: prependMessages
OlderPageReply ==
    /\ Replied("handleLoadOlderMessages")
    /\ LET call == Head(calls)
       IN /\ messages' = prependMessages(messages, call.result)
          /\ reply' = PageRead("handleLoadOlderMessages", call.chatId, call.offset, call.result)
    /\ calls' = Tail(calls)
    /\ UNCHANGED <<clicks, faults, store, ws, reconnectAttempt, heartbeatTimeout, reconnectTimeout,
                   orphanTimers, sockets, task, connection, chats, db, uuids,
                   now, emitted, lastDelay, applied, disconnected, quota, credit, entries,
                   attempts>>

\* ------------------------------------------------------------------ App
\* the first render is committed: the effect of ChatList calls loadChats(),
\* then the effect of App calls seedData() and wsClient.connect(store)
Mount ==
    /\ task = 0
    /\ ~store
    /\ HasFree
    /\ chats' = loadChats(chats, calls).chats
    /\ calls' = Append(loadChats(chats, calls).calls, IpcCall("seedData", "App", 0, 0))
    /\ store' = TRUE
    /\ AttemptConnection(sockets)
    /\ disconnected' = FALSE
    /\ UNCHANGED <<clicks, faults, reply, reconnectAttempt, heartbeatTimeout, reconnectTimeout,
                   orphanTimers, task, connection, messages, db, uuids, now, emitted,
                   lastDelay, applied, quota, entries, attempts>>

\* the promise of seedData() settles: nothing awaits it but .catch(() => {})
SeedDataReply ==
    /\ Replied("App")
    /\ calls' = Tail(calls)
    /\ UNCHANGED <<clicks, faults, reply, store, ws, reconnectAttempt, heartbeatTimeout, reconnectTimeout,
                   orphanTimers, sockets, task, connection, chats, messages, db, uuids, now,
                   emitted, lastDelay, applied, disconnected, quota, credit, entries, attempts>>

\* -------------------------------------------- the database interface
\* The functions database.ts exports, called with arguments of small sets.
\* addMessage: a chat that exists or an id no chat has; a ts older than the
\* chat's newest message, equal to it, or newer than everything; for the
\* row's uuidv4() a value that sorts after the ids in use or one that sorts
\* before them; a transaction that meets no failure or one at a statement.
StoreChatIds == {FirstChat, FourthChat, 0}

AddArguments ==
    {[chatId |-> c, ts |-> t, id |-> uuids + 1, fault |-> "none"] :
        c \in {FirstChat, FourthChat},
        t \in {StartTime - SeedAge(FirstChat, 2), StartTime - SeedAge(FirstChat, 1),
               StartTime + 1}}
    \cup {[chatId |-> FirstChat, ts |-> StartTime + 1, id |-> uuids + 1, fault |-> f] :
            f \in {"insert", "update"}}
    \cup {[chatId |-> 0, ts |-> StartTime + 1, id |-> uuids + 1, fault |-> "none"]}

\* a message with the ts of the newest message of its chat and an id that
\* sorts before the ids in use
TieArguments ==
    {[chatId |-> c, ts |-> Head(getMessages(db, c, 1, 0)).ts, id |-> 0 - (uuids + 1),
      fault |-> "none"] : c \in {FirstChat}}

Limits == {0, PageSize}

StoreVarsUnchanged ==
    UNCHANGED <<clicks, calls, store, ws, reconnectAttempt, heartbeatTimeout, reconnectTimeout,
                orphanTimers, sockets, task, connection, chats, messages, emitted,
                lastDelay, applied, disconnected, credit, entries, attempts>>

\* addMessage(chatId, sender, body, ts)
StoreAddMessage(chatId, body, ts, id, fault) ==
    /\ quota > 0
    /\ quota' = quota - 1
    /\ IF fault = "none" THEN UNCHANGED faults ELSE faults > 0 /\ faults' = faults - 1
    /\ LET r == addMessage(db, id, chatId, body, ts, fault)
       IN /\ db' = r.db
          /\ reply' = [op |-> "addMessage", chatId |-> chatId, ts |-> ts, id |-> id,
                       ok |-> r.ok]
    /\ uuids' = uuids + 1
    /\ UNCHANGED now
    /\ StoreVarsUnchanged

\* markChatAsRead(chatId)
StoreMarkChatAsRead(chatId) ==
    /\ db' = markChatAsRead(db, chatId)
    /\ reply' = [op |-> "markChatAsRead", chatId |-> chatId, ok |-> TRUE]
    /\ UNCHANGED <<uuids, now, faults, quota>>
    /\ StoreVarsUnchanged

\* seedData()
StoreSeedData ==
    /\ Len(db.seeds) <= MaxSeeds
    /\ db' = seedData(db, now, uuids)
    /\ uuids' = uuids + SeedUuids
    /\ now' = now + 1
    /\ reply' = [op |-> "seedData", ok |-> TRUE]
    /\ UNCHANGED <<faults, quota>>
    /\ StoreVarsUnchanged

\* searchMessages(chatId, query)
StoreSearchMessages(chatId, query) ==
    /\ reply' = [op |-> "searchMessages", chatId |-> chatId, query |-> query,
                 result |-> searchMessages(db, chatId, query)]
    /\ UNCHANGED <<db, uuids, now, faults, quota>>
    /\ StoreVarsUnchanged

\* getChats(limit, offset)
StoreGetChats(limit, offset) ==
    /\ reply' = [op |-> "getChats", limit |-> limit, offset |-> offset,
                 result |-> getChats(db, limit, offset)]
    /\ UNCHANGED <<db, uuids, now, faults, quota>>
    /\ StoreVarsUnchanged

\* getMessages(chatId, limit, offset)
StoreGetMessages(chatId, limit, offset) ==
    /\ reply' = [op |-> "getMessages", chatId |-> chatId, limit |-> limit,
                 offset |-> offset,
                 result |-> getMessages(db, chatId, limit, offset)]
    /\ UNCHANGED <<db, uuids, now, faults, quota>>
    /\ StoreVarsUnchanged

\* ------------------------------------------------------ specifications
\* The whole synchronisation path: renderer, client, server, emitter and
\* database.
Init == InitWith(SyncSockets, SyncMsgs, 0, SyncClicks)

\* the main process runs the handler of the oldest call
IpcMain ==
    \/ ServeGetChats
    \/ ServeGetMessages
    \/ ServeMarkChatAsRead
    \/ ServeSeedData

Next ==
    \/ Mount
    \/ Disconnect
    \/ \E s \in Socks : SocketOpen(s)
    \/ \E s \in Socks : SocketMessage(s)
    \/ \E s \in Socks : SocketError(s)
    \/ \E s \in Socks : SocketClose(s)
    \/ ReconnectFire
    \/ \E s \in Socks : ServerAccept(s)
    \/ \E c \in EmitterChats, t \in messageTexts : EmitterTick(c, t, "none")
    \/ ServerDrop
    \/ LoadChats
    \/ LoadChatsReply
    \/ \E c \in ClickChats : SelectChat(c)
    \/ MarkReadReply
    \/ FirstPageReply
    \/ SeedDataReply
    \/ ServeGetChats
    \/ ServeGetMessages
    \/ ServeMarkChatAsRead
    \/ ServeSeedData

\* What the event loop guarantees: a socket event that is due is delivered
\* (the error event of a socket closed while connecting included), a timer
\* that is pending fires, the main process handles a call and the renderer
\* takes a reply.  Nothing obliges the user, the network or the emitter to
\* act.  The main process can run a handler exactly when a call is unserved
\* and no task is running (Serving), so that the weak fairness of IpcMain is
\* written with that condition in the place of ENABLED.
Fairness ==
    /\ \A s \in Socks : WF_vars(SocketOpen(s))
    /\ \A s \in Socks : WF_vars(SocketMessage(s))
    /\ \A s \in Socks : WF_vars(SocketClose(s))
    /\ \A s \in Socks : WF_vars(SocketError(s) /\ sockets[s].rs = "CLOSING")
    /\ \A s \in Socks : WF_vars(ServerAccept(s))
    /\ WF_vars(ReconnectFire)
    /\ []<>(task # 0 \/ Unserved = {}) \/ []<><<IpcMain>>_vars
    /\ WF_vars(LoadChatsReply \/ MarkReadReply \/ FirstPageReply \/ SeedDataReply)

Spec == Init /\ [][Next]_vars /\ Fairness

\* Missed events: the synchronisation path without the user's clicks: the
\* list is loaded at mount, sessions come and go, and the emitter stores a
\* message at any moment.  With no click the renderer calls getChats and
\* seedData only, so that the main process runs no other handler.
InitRecovery == InitWith(SyncSockets, SyncMsgs, 0, 0)

NextRecovery ==
    \/ Mount
    \/ ServeGetChats
    \/ ServeSeedData
    \/ LoadChatsReply
    \/ SeedDataReply
    \/ \E s \in Socks : SocketOpen(s)
    \/ \E s \in Socks : SocketMessage(s)
    \/ \E s \in Socks : SocketError(s)
    \/ \E s \in Socks : SocketClose(s)
    \/ ReconnectFire
    \/ \E s \in Socks : ServerAccept(s)
    \/ \E c \in EmitterChats, t \in messageTexts : EmitterTick(c, t, "none")
    \/ ServerDrop

SpecRecovery == InitRecovery /\ [][NextRecovery]_vars /\ Fairness

\* The connection manager against a server that emits nothing: the methods
\* of WebSocketClient and its handlers, and enough sockets to exhaust the
\* reconnect attempts.
InitConn == InitWith(ConnSockets, 0, 0, 0)

NextConn ==
    \/ Connect
    \/ Disconnect
    \/ ClientDrop
    \/ \E s \in Socks : SocketOpen(s)
    \/ \E s \in Socks : SocketMessage(s)
    \/ \E s \in Socks : SocketError(s)
    \/ \E s \in Socks : SocketClose(s)
    \/ HeartbeatFire
    \/ ReconnectFire
    \/ \E s \in Socks : ServerAccept(s)
    \/ ServerDrop

FairnessConn ==
    /\ \A s \in Socks : WF_vars(SocketOpen(s))
    /\ \A s \in Socks : WF_vars(SocketMessage(s))
    /\ \A s \in Socks : WF_vars(SocketClose(s))
    /\ \A s \in Socks : WF_vars(SocketError(s) /\ sockets[s].rs = "CLOSING")
    /\ \A s \in Socks : WF_vars(ServerAccept(s))
    /\ WF_vars(ReconnectFire)
    /\ WF_vars(HeartbeatFire)

SpecConn == InitConn /\ [][NextConn]_vars /\ FairnessConn

\* The database interface on its own: any sequence of calls on the database
\* initializeDatabase() has left.
InitStore == InitWith(0, MaxInserts, StoreFaults, 0)

NextStore ==
    \/ \E a \in AddArguments, t \in messageTexts :
          StoreAddMessage(a.chatId, t, a.ts, a.id, a.fault)
    \/ \E c \in StoreChatIds : StoreMarkChatAsRead(c)
    \/ StoreSeedData

SpecStore == InitStore /\ [][NextStore]_vars

\* Paging: the chat list and the message view of the renderer reading page
\* after page, while the mount's seedData() writes and the emitter stores
\* one message in the first chat; no session is opened, so that no event
\* reaches the renderer.
InitPages == InitWith(1, 1, 0, PageClicks)

NextPages ==
    \/ Mount
    \/ IpcMain
    \/ EmitterTick(FirstChat, Hey, "none")
    \/ LoadChats
    \/ LoadChatsReply
    \/ \E c \in ClickChats : SelectChat(c)
    \/ MarkReadReply
    \/ FirstPageReply
    \/ LoadOlderMessages
    \/ OlderPageReply
    \/ SeedDataReply

SpecPages == InitPages /\ [][NextPages]_vars

\* Queries: getChats and getMessages as functions of the tables, on the
\* database initializeDatabase() has left, on the tables of the repository's
\* test (ten chats, the first with 50 messages) and on the same with 60
\* messages; one message may be added that ties with the newest of its chat.

TestDb(n) ==
    [seeds |-> <<>>,
     chats |-> [i \in 1..10 |->
                  [id |-> i, rowid |-> i, lastMessageAt |-> StartTime - i * 1000,
                   unreadCount |-> i % 3]],
     messages |-> {[rowid |-> i, id |-> i, chatId |-> 1, ts |-> StartTime - i * 1000,
                    body |-> Hey] : i \in 1..n}]

InitQuery ==
    \/ InitWith(0, 1, 0, 0)
    \/ \E n \in {50, 60} : InitOver(TestDb(n), n, 0, 1, 0, 0)

NextQuery ==
    \/ \E l \in Limits, o \in {0, 5, SeedChatCount} : StoreGetChats(l, o)
    \/ \E c \in StoreChatIds, l \in Limits, o \in {0, PageSize, 2 * PageSize, 3 * PageSize} :
          StoreGetMessages(c, l, o)
    \/ \E a \in TieArguments, t \in messageTexts :
          StoreAddMessage(a.chatId, t, a.ts, a.id, a.fault)

SpecQuery == InitQuery /\ [][NextQuery]_vars

\* Frames: onmessage against whatever a peer may send, with the chat list
\* loaded and a chat selected or not.
InitFrames == InitWith(FrameSockets, FrameCount, 0, FrameClicks)

NextFrames ==
    \/ Mount
    \/ IpcMain
    \/ LoadChatsReply
    \/ SeedDataReply
    \/ \E s \in Socks : ServerAccept(s)
    \/ \E s \in Socks : SocketOpen(s)
    \/ \E s \in Socks : SocketMessage(s)
    \/ \E s \in Socks, f \in MalformedFrames \cup EventFrames : PeerFrame(s, f)
    \/ HeartbeatFire
    \/ \E c \in ClickChats : SelectChat(c)
    \/ MarkReadReply
    \/ FirstPageReply

SpecFrames == InitFrames /\ [][NextFrames]_vars

\* Broadcast: the emitter's ticks over sessions that are connecting, open,
\* closed by the client or dropped by the server, on the seeded database and
\* on one whose tables are empty.
InitBroker ==
    \E seeded \in BOOLEAN :
        InitOver(IF seeded THEN SeededDb ELSE EmptyDb, IF seeded THEN SeedUuids ELSE 0,
                 BrokerSockets, BrokerMsgs, BrokerFaults, 0)

NextBroker ==
    \/ Connect
    \/ Disconnect
    \/ ClientDrop
    \/ \E s \in Socks : ServerAccept(s)
    \/ \E s \in Socks : SocketOpen(s)
    \/ \E s \in Socks : SocketMessage(s)
    \/ \E s \in Socks : SocketError(s)
    \/ \E s \in Socks : SocketClose(s)
    \/ ReconnectFire
    \/ \E c \in EmitterChats, t \in messageTexts, f \in {"none", "insert", "update"} :
          EmitterTick(c, t, f)
    \/ EmitterTickIdle
    \/ ServerDrop

SpecBroker == InitBroker /\ [][NextBroker]_vars

\* Sessions: the server's sessions with their heartbeat, against the client
\* and peers that may stop answering.
InitServer == InitWith(ServerSockets, 0, 0, 0)

NextServer ==
    \/ Connect
    \/ ClientDrop
    \/ \E s \in Socks : ServerAccept(s)
    \/ \E s \in Socks : SocketOpen(s)
    \/ \E s \in Socks : SocketMessage(s)
    \/ \E s \in Socks : SocketError(s)
    \/ \E s \in Socks : SocketClose(s)
    \/ ReconnectFire
    \/ HeartbeatFire
    \/ \E s \in Socks : PeerStalls(s)
    \/ \E s \in Socks : ServerHeartbeat(s)
    \/ ServerDrop

\* socket events and timers that are due are delivered; the heartbeat
\* interval of a session keeps firing
FairnessServer ==
    /\ FairnessConn
    /\ \A s \in Socks : WF_vars(ServerHeartbeat(s))

SpecServer == InitServer /\ [][NextServer]_vars /\ FairnessServer

\* Search: searchMessages over message bodies and queries of a small
\* alphabet that has letters of both cases and the characters % and _.
SearchChars == {"a", "A", "b", "%", "_"}
SearchTexts == {<<"a", "b">>, <<"A", "%">>, <<"b">>, <<"_", "a">>}
\* the query argument: any string of one or two characters, and the empty one
QueryArguments ==
    {<<>>} \cup {<<x>> : x \in SearchChars}
           \cup {<<x, y>> : x \in SearchChars, y \in SearchChars}

\* two chats, two messages in the first and one in the second
SearchDb(b1, b2, b3) ==
    [seeds |-> <<>>,
     chats |-> [c \in {1, 2} |-> [id |-> c, rowid |-> c, lastMessageAt |-> 2, unreadCount |-> 0]],
     messages |-> {[rowid |-> 1, id |-> 1, chatId |-> 1, ts |-> 1, body |-> b1],
                   [rowid |-> 2, id |-> 2, chatId |-> 2, ts |-> 2, body |-> b2],
                   [rowid |-> 3, id |-> 3, chatId |-> 1, ts |-> 2, body |-> b3]}]

InitSearch ==
    \E b1 \in SearchTexts, b2 \in SearchTexts, b3 \in SearchTexts :
        InitOver(SearchDb(b1, b2, b3), 3, 0, 0, 0, 0)

NextSearch == \E c \in {1, 2, 0}, q \in QueryArguments : StoreSearchMessages(c, q)

SpecSearch == InitSearch /\ [][NextSearch]_vars

\* ----------------------------------------------------------------- claims
\* ----------------------------------------------------------------- claims
NoTimerPending == reconnectTimeout # "pending" /\ orphanTimers = 0
NoSocketInUse == \A s \in Socks : sockets[s].rs \notin {"CONNECTING", "OPEN"}

\* C1: once disconnect() has been called the observable state is Offline, no
\* reconnect or heartbeat timer is pending, no ping is sent and the instance
\* has no socket connecting or open, until connect() is called again.
C1_DisconnectIsTerminal ==
    disconnected =>
        /\ connection.state = "offline"
        /\ NoTimerPending
        /\ heartbeatTimeout \notin {"pending", "sent"}
        /\ NoSocketInUse

\* C2: every step in which a socket's onopen runs ends in the state
\* Connected with the observable reconnectAttempt 0 and backoffDelay 1000.
C2_OpenResetsCounters ==
    [][(\E s \in Socks : SocketOpen(s)) =>
          /\ connection'.state = "connected"
          /\ connection'.reconnectAttempt = 0
          /\ connection'.backoffDelay = BaseDelay]_vars

\* C2 witness: an onopen has just run after at least two failed attempts
\* (the private counter still remembers them).
C2_OpenAfterFailures ==
    /\ connection.state = "connected"
    /\ connection.reconnectAttempt = 0
    /\ reconnectAttempt >= 2
    /\ heartbeatTimeout = "pending"
    /\ entries = 0

\* C3: whenever the socket of a Connected client closes, the client is
\* Reconnecting afterwards and a reconnection is scheduled with delay 1000 ms.
C3_FirstRetryAfterBaseDelay ==
    [][\A s \in Socks :
          (SocketClose(s) /\ s = ws /\ connection.state = "connected") =>
              /\ connection'.state = "reconnecting"
              /\ reconnectTimeout' = "pending"
              /\ lastDelay' = BaseDelay]_vars

\* C4: the k-th consecutive entry into Reconnecting of the client's socket
\* (k <= 10, no onopen in between) schedules the reconnection with delay
\* min(1000 * 2^(k-1), 30000).
C4_DelayFollowsFailureCount ==
    [][\A s \in Socks :
          (SocketClose(s) /\ s = ws /\ entries' <= maxReconnectAttempts) =>
              /\ reconnectTimeout' = "pending"
              /\ lastDelay' = Backoff(entries')]_vars

AllSocketsClosed == task = 0 /\ \A s \in Socks : sockets[s].rs = "CLOSED"

\* C5: at most 10 reconnect attempts are made without a success in between,
\* and once the tenth has failed the client is Reconnecting with
\* reconnectAttempt 10 and no further attempt scheduled.
C5_StopsAfterTenAttempts ==
    /\ attempts <= maxReconnectAttempts
    /\ (attempts = maxReconnectAttempts /\ AllSocketsClosed) =>
          /\ connection.state = "reconnecting"
          /\ connection.reconnectAttempt = maxReconnectAttempts
          /\ NoTimerPending

\* a reconnect timer is pending or a connection attempt is still in flight
ReconnectionPending ==
    \/ ~NoTimerPending
    \/ task # 0
    \/ \E s \in Socks : sockets[s].rs \in {"CONNECTING", "CLOSING"}

\* C6: a client that is Reconnecting and has stopped trying shows the
\* observable reconnectAttempt 10; with reconnectAttempt below 10 a
\* Reconnecting client always has a reconnection pending.
C6_GaveUpShowsInCounter ==
    (connection.state = "reconnecting" /\ ~disconnected
        /\ connection.reconnectAttempt < maxReconnectAttempts)
    => ReconnectionPending

\* C7: when the client's socket closes after a successful connection has
\* reset the attempt counter, or while fewer than 10 consecutive failures
\* have occurred, a reconnection attempt is scheduled.
C7_FailureIsRetried ==
    [][\A s \in Socks :
          (SocketClose(s) /\ s = ws
              /\ (connection.state = "connected" \/ entries < maxReconnectAttempts)) =>
              reconnectTimeout' = "pending"]_vars

\* C8: a Connected client whose heartbeat window has elapsed without inbound
\* traffic (the ping went out, nothing came back) eventually is Reconnecting
\* with a reconnection scheduled, unless traffic re-arms the heartbeat or
\* disconnect() is called.
C8_SilenceBecomesReconnect ==
    (connection.state = "connected" /\ heartbeatTimeout = "sent")
    ~> \/ connection.state = "reconnecting" /\ ReconnectionPending
       \/ heartbeatTimeout = "pending"
       \/ disconnected

\* C9: no newMessage event the broker has broadcast is applied to the view
\* state of the client more than once.
C9_NoDuplicateApplication ==
    \A i \in 1..Len(emitted) : applied[i] <= 1

\* the chat list of the view shows event i's chat with a lastMessageAt that
\* is not older than the event
Reflected(i) ==
    /\ HasChat(chats.items, emitted[i].chatId)
    /\ FindChat(chats.items, emitted[i].chatId).lastMessageAt >= emitted[i].ts

\* C10: a message emitted while the client had no session, its chat being in
\* the loaded chat list, is eventually reflected in the view once the client
\* is Connected again, unless the client leaves Connected or disconnect() is
\* called first.
C10_MissedEventIsRecovered ==
    \A i \in 1..MaxMsgs :
        (/\ i <= Len(emitted)
         /\ emitted[i].sent = 0
         /\ HasChat(chats.items, emitted[i].chatId)
         /\ connection.state = "connected"
         /\ ~disconnected)
        ~> \/ i <= Len(emitted) /\ Reflected(i)
           \/ connection.state # "connected"
           \/ disconnected

\* the step left every chat row but that of chatId as it was: the batches
\* seedData() wrote are the same, and so is every row written since
OtherChatsUnchanged(chatId) ==
    /\ db'.seeds = db.seeds
    /\ \A c \in (DOMAIN db.chats \cup DOMAIN db'.chats) \ {chatId} :
          /\ c \in ChatIds(db) /\ c \in ChatIds(db')
          /\ chatRow(db', c) = chatRow(db, c)

\* the step added exactly the row r and counted it in its chat, and changed
\* nothing else of the tables
InsertedWhole(r) ==
    /\ db'.messages = db.messages \cup {r}
    /\ r \notin db.messages
    /\ r.chatId \in ChatIds(db)
    /\ chatRow(db', r.chatId) = [chatRow(db, r.chatId) EXCEPT !.lastMessageAt = r.ts,
                                                               !.unreadCount = @ + 1]
    /\ OtherChatsUnchanged(r.chatId)

\* C11: every call of addMessage either adds the message row together with
\* the chat's lastMessageAt and unreadCount update, or, when the insert or
\* the update fails, leaves both tables as they were.
C11_InsertIsAllOrNothing ==
    [][reply'.op = "addMessage" =>
          IF reply'.ok
          THEN \E r \in db'.messages : r.id = reply'.id /\ InsertedWhole(r)
          ELSE UNCHANGED db]_vars

\* C11 witness: an addMessage for an existing chat has failed (its UPDATE or
\* its INSERT raised) on a database that already took a message.
C11_FailedInsertSeen ==
    /\ reply.op = "addMessage"
    /\ ~reply.ok
    /\ reply.chatId \in ChatIds(db)
    /\ faults = 0
    /\ db.messages # {}

\* the chats the claims about every chat are evaluated for: every chat whose
\* row a call has written, and of the chats seedData() made the newest, the
\* fourth and one beyond the first page
WrittenChats == DOMAIN db.chats \cup ({FirstChat, FourthChat, FarChat} \cap ChatIds(db))

\* C12: for every chat that has a message, lastMessageAt is the largest ts
\* among the chat's messages (so an addMessage with an older ts does not
\* lower it).
C12_LastMessageAtIsNewest ==
    \A c \in WrittenChats :
        messagesOf(db, c) # {} =>
            /\ \A r \in messagesOf(db, c) : r.ts <= chatRow(db, c).lastMessageAt
            /\ \E r \in messagesOf(db, c) : r.ts = chatRow(db, c).lastMessageAt

\* C13: every event the emitter has broadcast carries the id of a stored
\* message of its chat, and that row has the event's ts and body.
C13_EventDescribesStoredRow ==
    \A i \in 1..Len(emitted) :
        \E r \in messagesOf(db, emitted[i].chatId) :
            /\ r.id = emitted[i].messageId
            /\ r.ts = emitted[i].ts
            /\ r.body = emitted[i].body

\* C14: a tick whose addMessage fails broadcasts nothing, leaves the database
\* as it was and makes no second attempt (it draws the ids of one attempt);
\* the interval goes on, so a later tick can store and broadcast.
C14_FailedTickIsSkipped ==
    /\ [][faults' < faults =>
            /\ UNCHANGED <<db, emitted, sockets>>
            /\ uuids' = uuids + 2]_vars
    /\ [](task = 0 /\ quota > 0 /\ FirstChat \in ChatIds(db) =>
            ENABLED (\E t \in messageTexts : EmitterTick(FirstChat, t, "none")))

\* C14 witness: a tick failed, and the tick after it stored and broadcast a
\* message (the event carries the third id drawn since the seed).
C14_TickAfterFailedTick ==
    /\ faults = 0
    /\ Len(emitted) = 1
    /\ emitted[1].messageId = SeedUuids + 3

\* C15: seedData() called on a database that already has chats adds no chat
\* and no message.
C15_SeedIsIdempotent ==
    [][reply'.op = "seedData" /\ ChatCount(db) > 0 => UNCHANGED db]_vars

\* C16: markChatAsRead(chatId) sets the unreadCount of that chat to 0 and
\* changes no other chat, no lastMessageAt and no message; for an id no chat
\* has it changes nothing and returns normally.
C16_MarkReadTouchesOneCounter ==
    [][reply'.op = "markChatAsRead" =>
          /\ reply'.ok
          /\ db'.messages = db.messages
          /\ OtherChatsUnchanged(reply'.chatId)
          /\ IF reply'.chatId \in ChatIds(db)
             THEN /\ reply'.chatId \in ChatIds(db')
                  /\ chatRow(db', reply'.chatId)
                       = [chatRow(db, reply'.chatId) EXCEPT !.unreadCount = 0]
             ELSE UNCHANGED db]_vars

\* C16 witness: a chat that had taken a message has been marked read while
\* another chat still counts an unread message.
C16_MarkedReadAmongUnread ==
    /\ reply.op = "markChatAsRead"
    /\ reply.chatId \in ChatIds(db)
    /\ chatRow(db, reply.chatId).unreadCount = 0
    /\ \E r \in db.messages : r.chatId = reply.chatId
    /\ \E c \in DOMAIN db.chats : db.chats[c].unreadCount > 0

PageWithinLimit(page, limit, offset, available) ==
    /\ Len(page) <= limit
    /\ limit = 0 => page = <<>>
    /\ offset >= available => page = <<>>

\* C17: getChats and getMessages return at most limit items, nothing for
\* limit 0 or an offset beyond the rows, chats by lastMessageAt descending
\* and messages by ts descending, equal keys by id ascending.
C17_PagesAreBoundedAndOrdered ==
    /\ reply.op = "getChats" =>
          /\ PageWithinLimit(reply.result, reply.limit, reply.offset, ChatCount(db))
          /\ \A i, j \in 1..Len(reply.result) :
                i < j => \/ reply.result[i].lastMessageAt > reply.result[j].lastMessageAt
                         \/ /\ reply.result[i].lastMessageAt = reply.result[j].lastMessageAt
                            /\ reply.result[i].id < reply.result[j].id
    /\ reply.op = "getMessages" =>
          /\ PageWithinLimit(reply.result, reply.limit, reply.offset,
                             Len(MessageScan(db, reply.chatId)))
          /\ \A i, j \in 1..Len(reply.result) :
                i < j => \/ reply.result[i].ts > reply.result[j].ts
                         \/ /\ reply.result[i].ts = reply.result[j].ts
                            /\ reply.result[i].id < reply.result[j].id

\* the pages of PageSize items at offsets 0, PageSize, 2 * PageSize, ...
MessagePage(c, k) == getMessages(db, c, PageSize, k * PageSize)
ChatPage(k) == getChats(db, PageSize, k * PageSize)

\* the chats whose messages are paged: of the repository's test the chat that
\* has the messages and one that has none, of the seed the newest and the
\* fourth
PagedChats == {FirstChat, FourthChat} \cap ChatIds(db)

\* C18: the successive pages of a chat's messages, and of the chats, put one
\* after the other are every row once, in the order of the full listing; of
\* 60 messages read by 50 the first page has 50 and leaves hasMore true, the
\* second has the other 10 and leaves hasMore false.
C18_PagesPartitionTheRows ==
    /\ \A c \in PagedChats :
          LET all == getMessages(db, c, -1, 0)
              rows == messagesOf(db, c)
          IN /\ MessagePage(c, 0) \o MessagePage(c, 1) \o MessagePage(c, 2) = all
             /\ Len(all) = Cardinality(rows)
             /\ {all[i].id : i \in 1..Len(all)} = {r.id : r \in rows}
             /\ Len(all) = 60 =>
                   /\ Len(MessagePage(c, 0)) = 50 /\ HasMore(MessagePage(c, 0))
                   /\ Len(MessagePage(c, 1)) = 10 /\ ~HasMore(MessagePage(c, 1))
                   /\ \A i \in 1..10 : MessagePage(c, 1)[i] = all[50 + i]
    /\ LET all == getChats(db, -1, 0)
       IN /\ ChatPage(0) \o ChatPage(1) \o ChatPage(2) \o ChatPage(3) = all
          /\ Len(all) = ChatCount(db)
          /\ Cardinality({all[i].id : i \in 1..Len(all)}) = Len(all)
          /\ \A i \in 1..Len(all) : all[i].id \in ChatIds(db)

\* C18 witness: the second page of a chat of 60 messages has been read and
\* had 10 items.
C18_SecondPageOfSixty ==
    /\ reply.op = "getMessages"
    /\ reply.limit = PageSize
    /\ reply.offset = PageSize
    /\ Len(MessageScan(db, reply.chatId)) = 60
    /\ Len(reply.result) = 10
    /\ reply.result = MessagePage(reply.chatId, 1)

\* C19: every page read of the chat list or the message view leaves hasMore
\* of the slice true exactly when the read returned as many items as it
\* asked for.
C19_HasMoreIffFullPage ==
    [][/\ LoadChatsReply => (chats'.hasMore <=> reply'.count = reply'.limit)
       /\ FirstPageReply \/ OlderPageReply =>
             (messages'.hasMore <=> reply'.count = reply'.limit)]_vars

\* q occurs in text as it is written, letters compared without regard to case
RECURSIVE StartsWith(_, _)
StartsWith(text, q) ==
    \/ q = <<>>
    \/ /\ text # <<>>
       /\ Lower(Head(text)) = Lower(Head(q))
       /\ StartsWith(Tail(text), Tail(q))

Contains(text, q) == \E i \in 0..Len(text) : StartsWith(SubSeq(text, i + 1, Len(text)), q)

\* C20: for a non-empty query, with % or _ in it or not, searchMessages
\* returns only messages of the chat whose body contains the query as it is
\* written (case aside), at most 50 of them, by ts descending.
C20_SearchFindsLiteralSubstring ==
    reply.op = "searchMessages" /\ reply.query # <<>> =>
        /\ Len(reply.result) <= 50
        /\ \A i \in 1..Len(reply.result) :
              /\ reply.result[i].chatId = reply.chatId
              /\ Contains(reply.result[i].body, reply.query)
        /\ \A i, j \in 1..Len(reply.result) :
              i < j => reply.result[i].ts >= reply.result[j].ts

\* C21: searchMessages with the empty string as query returns nothing.
C21_EmptyQueryFindsNothing ==
    reply.op = "searchMessages" /\ reply.query = <<>> => reply.result = <<>>

\* C22: when addMessage has stored a message whose ts is greater than the
\* lastMessageAt of every chat, getChats(limit, 0) with limit >= 1 returns
\* the message's chat first.
C22_NewestChatComesFirst ==
    [][(/\ reply'.op = "addMessage"
        /\ reply'.ok
        /\ \A c \in ChatIds(db) : chatRow(db, c).lastMessageAt < reply'.ts) =>
          \A limit \in {1, PageSize} :
              /\ getChats(db', limit, 0) # <<>>
              /\ Head(getChats(db', limit, 0)).id = reply'.chatId]_vars

\* C22 witness: a message newer than everything has been stored in a chat
\* that was the fourth of the listing.
C22_FourthChatGotNewest ==
    /\ reply.op = "addMessage"
    /\ reply.ok
    /\ reply.chatId = FourthChat
    /\ reply.ts = StartTime + 1
    /\ Cardinality(db.messages) = 1
    /\ Head(getChats(db, 1, 0)).id = FourthChat

UnreadOf(items, c) == FindChat(items, c).unreadCount

\* the frame is none the client should apply
Malformed(f) ==
    \/ f.type \notin {"connected", "newMessage", "close"}
    \/ /\ f.type = "newMessage"
       /\ Undefined \in {f.chatId, f.messageId, f.ts} \/ f.body = UndefinedText

\* C23: when the client applies a newMessage event for a loaded chat that is
\* not the selected one, the unread counter of that chat grows by exactly 1
\* and the counter of no other chat changes.
C23_UnreadGrowsByOne ==
    [][\A s \in Socks :
          (/\ SocketMessage(s)
           /\ Head(sockets[s].inbox).type = "newMessage"
           /\ ~Malformed(Head(sockets[s].inbox))
           /\ HasChat(chats.items, Head(sockets[s].inbox).chatId)
           /\ chats.selectedId # Head(sockets[s].inbox).chatId) =>
              \A k \in 1..Len(chats.items) :
                  LET c == chats.items[k].id
                  IN /\ HasChat(chats'.items, c)
                     /\ UnreadOf(chats'.items, c) =
                           UnreadOf(chats.items, c)
                             + (IF c = Head(sockets[s].inbox).chatId THEN 1 ELSE 0)]_vars

\* C24: a frame that cannot be parsed, has an unknown type, or is a
\* newMessage with a field missing is dropped: chat list, unread counters,
\* displayed messages and connection state stay as they are and the socket
\* stays open.
C24_MalformedFrameIsDropped ==
    [][\A s \in Socks :
          SocketMessage(s) /\ Malformed(Head(sockets[s].inbox)) =>
              /\ UNCHANGED <<chats, messages, connection>>
              /\ sockets'[s].rs = "OPEN"]_vars

\* C25: when the selection of a chat completes, no message having been
\* stored for the chat since the selection began, the chat's unreadCount in
\* the database is 0, its unread counter in the list is 0, and the displayed
\* messages are the first page of the chat (shown oldest first).
C25_SelectionMarksRead ==
    [][(/\ FirstPageReply
        /\ reply = Selection(Head(calls).chatId)) =>
          LET c == Head(calls).chatId
          IN /\ chatRow(db', c).unreadCount = 0
             /\ HasChat(chats'.items, c) /\ UnreadOf(chats'.items, c) = 0
             /\ messages'.items = Reverse(getMessages(db', c, PageSize, 0))]_vars

\* C26: a session that has been pinged and has not answered within the
\* window is closed by the server.
C26_UnresponsiveSessionIsClosed ==
    \A s \in Socks :
        (sockets[s].srv = "open" /\ sockets[s].unanswered = MaxUnanswered)
            ~> (sockets[s].srv # "open")

\* C27: with no event appended, messages.offset is the number of messages
\* loaded since the last clearMessages, and a 'load older' read starts right
\* after the messages that were loaded before it.
C27_OffsetCountsLoadedMessages ==
    /\ messages.offset = Len(messages.items)
    /\ reply.op = "handleLoadOlderMessages" =>
          reply.offset + reply.count = Len(messages.items)

\* C28: with no write in between, a load of the chat list that finds the
\* first chats of the listing loaded leaves the first chats loaded with the
\* next page of 50 added, or all of them, each once; the load that brings
\* the last ones leaves hasMore false.
C28_ChatListReachesEveryChat ==
    [][(/\ LoadChatsReply
        /\ chats.items = getChats(db, Len(chats.items), 0)
        /\ Head(calls).result = getChats(db, PageSize, Head(calls).offset)) =>
          /\ chats'.items = getChats(db, Len(chats.items) + PageSize, 0)
          /\ Len(chats'.items) = ChatCount(db) => ~chats'.hasMore]_vars

\* C29: a failed open or a socket error never shows Offline: once the
\* connection state has left Offline it becomes Offline again only by
\* disconnect().
C29_ErrorNeverShowsOffline ==
    [][(connection.state # "offline" /\ ~disconnected') => connection'.state # "offline"]_vars

\* C30: while the state is Connected and the socket is open, the heartbeat
\* timer is armed, so that a silent link sees a ping every 10 s again and
\* again.
C30_HeartbeatAlwaysArmed ==
    (/\ task = 0
     /\ connection.state = "connected"
     /\ ws # 0
     /\ sockets[ws].rs = "OPEN") => heartbeatTimeout = "pending"

\* C31: when the client applies a newMessage event of the selected chat, the
\* message becomes the last displayed one, the messages displayed before keep
\* their places, and no unread counter of the chat list changes.
C31_SelectedChatEventIsAppended ==
    [][\A s \in Socks :
          (/\ SocketMessage(s)
           /\ Head(sockets[s].inbox).type = "newMessage"
           /\ ~Malformed(Head(sockets[s].inbox))
           /\ chats.selectedId = Head(sockets[s].inbox).chatId) =>
              LET e == Head(sockets[s].inbox) IN
              /\ messages'.items =
                    messages.items \o <<[id |-> e.messageId, chatId |-> e.chatId,
                                         ts |-> e.ts, body |-> e.body]>>
              /\ \A k \in 1..Len(chats.items) :
                    LET c == chats.items[k].id
                    IN /\ HasChat(chats'.items, c)
                       /\ UnreadOf(chats'.items, c) = UnreadOf(chats.items, c)]_vars

\* an event of the selected chat was applied below messages already displayed
C31_EventShownLast ==
    \E i \in 1..Len(emitted) :
        /\ applied[i] = 1
        /\ chats.selectedId = emitted[i].chatId
        /\ Len(messages.items) >= 2
        /\ messages.items[Len(messages.items)].id = emitted[i].messageId

\* the place of a chat in the list
Position(items, c) == CHOOSE i \in 1..Len(items) : items[i].id = c

\* no chat of the list stands before a chat whose lastMessageAt is larger
\* (a chat that has no lastMessageAt is left out of the comparison)
OrderedByLastMessage(items) ==
    \A i \in 1..Len(items), j \in 1..Len(items) :
        (/\ i < j
         /\ items[i].lastMessageAt # Undefined
         /\ items[j].lastMessageAt # Undefined) =>
            items[i].lastMessageAt >= items[j].lastMessageAt

\* C32: the chat list is ordered by lastMessageAt, newest first, in every
\* state; when the client applies a newMessage event of a loaded chat, the
\* chat's lastMessageAt becomes the event's ts and chats that now have equal
\* lastMessageAt stay in the order they had.
C32_ChatListStaysOrdered ==
    /\ []OrderedByLastMessage(chats.items)
    /\ [][\A s \in Socks :
            (/\ SocketMessage(s)
             /\ Head(sockets[s].inbox).type = "newMessage"
             /\ ~Malformed(Head(sockets[s].inbox))
             /\ HasChat(chats.items, Head(sockets[s].inbox).chatId)) =>
                LET e == Head(sockets[s].inbox) IN
                /\ FindChat(chats'.items, e.chatId).lastMessageAt = e.ts
                /\ \A i \in 1..Len(chats'.items), j \in 1..Len(chats'.items) :
                      (/\ i < j
                       /\ chats'.items[i].lastMessageAt # Undefined
                       /\ chats'.items[i].lastMessageAt = chats'.items[j].lastMessageAt) =>
                          Position(chats.items, chats'.items[i].id)
                             < Position(chats.items, chats'.items[j].id)]_vars

\* C33: in every state the reconnectAttempt of the connection slice is in
\* 0..10 and its backoffDelay is in 1000..30000.
C33_ObservableCountersInRange ==
    /\ connection.reconnectAttempt \in 0..maxReconnectAttempts
    /\ connection.backoffDelay \in BaseDelay..MaxDelay

\* the tenth reconnection has been scheduled, with the capped delay
C33_TenthAttemptAtMaxDelay ==
    /\ connection.reconnectAttempt = maxReconnectAttempts
    /\ connection.backoffDelay = MaxDelay
    /\ lastDelay = MaxDelay

\* sockets of the client that are connecting or open (their handlers run)
LiveSockets == {s \in Socks : sockets[s].rs \in {"CONNECTING", "OPEN"}}

\* reconnect timers that will still fire
PendingReconnectTimers == (IF reconnectTimeout = "pending" THEN 1 ELSE 0) + orphanTimers

\* C34: the client has at most one socket that is connecting or open and at
\* most one pending reconnect timer, in every state.
C34_OneSocketOneTimer ==
    /\ Cardinality(LiveSockets) <= 1
    /\ PendingReconnectTimers <= 1

\* C35: the displayed messages are in chronological order, oldest first, in
\* every state.
C35_DisplayIsChronological ==
    \A i \in 1..(Len(messages.items) - 1) :
        messages.items[i].ts <= messages.items[i + 1].ts

\* the event of the last tick that stored a message
LastEvent(log) ==
    LET r == log[Len(log)]
    IN NewMessageEvent(r.chatId, r.messageId, r.body, r.ts)

\* C36: a tick that stores a message puts exactly one newMessage event on
\* every session that is open and nothing on any other; a tick on a store
\* without chats stores nothing and sends nothing.
C36_BroadcastReachesOpenSessions ==
    [][/\ Len(emitted') = Len(emitted) + 1 =>
            /\ RowCount(db') = RowCount(db) + 1
            /\ \A s \in Socks :
                  sockets'[s].inbox =
                      IF sockets[s].srv = "open" /\ sockets[s].rs \in {"CONNECTING", "OPEN"}
                      THEN Append(sockets[s].inbox, LastEvent(emitted'))
                      ELSE sockets[s].inbox
       /\ (ChatCount(db) = 0 /\ quota' < quota) =>
            UNCHANGED <<db, sockets, emitted>>]_vars

\* a tick reached one session and not the other, which was not open
C36_OneSessionOfTwoReached ==
    /\ Len(emitted) = 1
    /\ emitted[1].sent = 1
    /\ \E s \in Socks :
          /\ sockets[s].srv = "open"
          /\ Len(sockets[s].inbox) >= 1
          /\ sockets[s].inbox[Len(sockets[s].inbox)] = LastEvent(emitted)
    /\ \E s \in Socks :
          /\ sockets[s].rs \in {"CONNECTING", "OPEN"}
          /\ sockets[s].srv \in {"none", "closed"}
          /\ \A k \in 1..Len(sockets[s].inbox) : sockets[s].inbox[k].type # "newMessage"

\* a tick has passed on the store without chats
C36_IdleTickSeen ==
    /\ ChatCount(db) = 0
    /\ quota < BrokerMsgs
    /\ \E s \in Socks : sockets[s].srv = "open" /\ sockets[s].rs = "OPEN"

\* C37: whenever onclose schedules a reconnection, the delay of the timer is
\* the backoffDelay of the connection slice and the client's own attempt
\* counter is the slice's reconnectAttempt.
C37_TimerFollowsPublishedBackoff ==
    [][(/\ entries' = entries + 1
        /\ ~AttemptsExhausted(reconnectAttempt)) =>
            /\ lastDelay' = connection'.backoffDelay
            /\ reconnectAttempt' = connection'.reconnectAttempt]_vars

\* the ids of the displayed entries
DisplayedIds == {messages.items[i].id : i \in 1..Len(messages.items)}

\* C38: no stored message is displayed twice, in any state: no two displayed
\* entries have the same id, and the row a tick stored is not displayed
\* together with the event of that tick.
C38_NoMessageDisplayedTwice ==
    /\ Cardinality(DisplayedIds) = Len(messages.items)
    /\ \A k \in 1..Len(emitted) :
          ~({emitted[k].messageId, emitted[k].rowId} \subseteq DisplayedIds)

\* C39: when no call of the view awaits its reply, every displayed message
\* belongs to the selected chat.
C39_DisplayedMessagesAreOfSelectedChat ==
    calls = <<>> =>
        \A i \in 1..Len(messages.items) : messages.items[i].chatId = chats.selectedId

\* the number of messages addMessage has stored for a chat
CountOf(rows, chatId) == Cardinality({r \in rows : r.chatId = chatId})

\* C40: the unreadCount of a chat is never negative and counts the messages
\* addMessage has committed for the chat since its last markChatAsRead: it is
\* 0 when the chat is created, a call of markChatAsRead for the chat sets it
\* to 0, and any other step adds the number of messages the step has
\* committed for the chat.
C40_UnreadCountsInsertsSinceRead ==
    /\ \A c \in WrittenChats : chatRow(db, c).unreadCount = 0
    /\ [](\A c \in WrittenChats : chatRow(db, c).unreadCount >= 0)
    /\ [][\A c \in WrittenChats' :
            chatRow(db', c).unreadCount =
                IF c \notin ChatIds(db) THEN 0
                ELSE IF reply'.op = "markChatAsRead" /\ reply'.chatId = c THEN 0
                ELSE chatRow(db, c).unreadCount
                        + CountOf(db'.messages, c) - CountOf(db.messages, c)]_vars

\* a chat that was marked read after a first insert has got a second one
C40_InsertAfterMarkRead ==
    \E c \in WrittenChats :
        /\ reply.op = "addMessage" /\ reply.ok /\ reply.chatId = c
        /\ CountOf(db.messages, c) = 2
        /\ chatRow(db, c).unreadCount = 1

\* a chat has got two inserts and no markChatAsRead between them
C40_TwoInsertsCounted ==
    \E c \in WrittenChats :
        /\ reply.op = "addMessage" /\ reply.ok /\ reply.chatId = c
        /\ chatRow(db, c).unreadCount = 2

====
